---- MODULE Spec2Model ----
(***************************************************************************)
(* Cittadinanza Check (citizenbship-docs/src/App.tsx): the filename        *)
(* classifier guessDocType, the scorer scoreQuality and the App component  *)
(* that owns the form and the document list.                               *)
(*                                                                         *)
(* A file name is a sequence of characters.  A character is a one-letter   *)
(* string; the four accented letters the source mentions are written as    *)
(* two-letter ASCII tokens: "o'" is o-acute, "O'" its capital, "c," is     *)
(* c-cedilla, "C," its capital.  The labels and the flag messages are the  *)
(* source's strings with their accents and dashes written in ASCII.        *)
(***************************************************************************)
EXTENDS Integers, Sequences, FiniteSets

VARIABLES
  applicant,   \* useState<Applicant>
  lineage,     \* useState<LineageInfo>
  docs,        \* useState<UploadedDoc[]>
  result,      \* { score, label, flags } of the last scoreQuality call
  fname,       \* the file name handed to guessDocType
  guess,       \* what guessDocType returned for fname
  snap,        \* history: the inputs and the result of one earlier render
  steps,       \* number of user actions so far
  accepted,    \* useState(false): the disclaimer checkbox
  alerts,      \* the messages alert() has shown, oldest first
  payload      \* the summary downloadSummary wrote last

vars ==
  <<applicant, lineage, docs, result, fname, guess, snap, steps,
    accepted, alerts, payload>>

(***************************************************************************)
(* Bounds                                                                  *)
(***************************************************************************)
MaxWords == 2    \* words in the stem of a classified file name
MaxDocs == 1     \* documents of a short dossier
MaxBlank == 0    \* blank text fields of a nearly complete form
MaxSeq == 2      \* length of a freely ordered document list
MaxSteps == 2    \* user actions in one App session
MaxPick == 1     \* files chosen in one file selection
NumIds == 2      \* distinct values uid() is drawn from

(***************************************************************************)
(* Characters and strings                                                  *)
(***************************************************************************)
UpperChars ==
  <<"A","B","C","D","E","F","G","H","I","J","K","L","M","N","O","P","Q",
    "R","S","T","U","V","W","X","Y","Z","O'","C,">>
LowerChars ==
  <<"a","b","c","d","e","f","g","h","i","j","k","l","m","n","o","p","q",
    "r","s","t","u","v","w","x","y","z","o'","c,">>

\* the lower-case letter of every upper-case letter
LowerOf ==
  [c \in {UpperChars[k] : k \in 1..Len(UpperChars)} |->
     LowerChars[CHOOSE k \in 1..Len(UpperChars) : UpperChars[k] = c]]

\* String.prototype.toLowerCase, one character
lowerChar(c) == IF c \in DOMAIN LowerOf THEN LowerOf[c] ELSE c

\* String.prototype.toLowerCase
toLowerCase(s) == [i \in 1..Len(s) |-> lowerChar(s[i])]

\* String.prototype.includes
includes(s, sub) ==
  \E i \in 1..(Len(s) - Len(sub) + 1) : SubSeq(s, i, i + Len(sub) - 1) = sub

\* a regular expression /<ext>$/i: the name ends in ext, letter case ignored
endsWithNoCase(name, ext) ==
  /\ Len(name) >= Len(ext)
  /\ \A k \in 1..Len(ext) : lowerChar(name[Len(name) - Len(ext) + k]) = ext[k]

ext_pdf == <<".","p","d","f">>
ext_png == <<".","p","n","g">>
ext_jpg == <<".","j","p","g">>
ext_jpeg == <<".","j","p","e","g">>
ext_webp == <<".","w","e","b","p">>
ext_gif == <<".","g","i","f">>

isImage(name) ==
  \/ endsWithNoCase(name, ext_png)
  \/ endsWithNoCase(name, ext_jpg)
  \/ endsWithNoCase(name, ext_jpeg)
  \/ endsWithNoCase(name, ext_webp)
  \/ endsWithNoCase(name, ext_gif)

isPDF(name) == endsWithNoCase(name, ext_pdf)

(***************************************************************************)
(* guessDocType                                                            *)
(***************************************************************************)
kw_nascimento == <<"n","a","s","c","i","m","e","n","t","o">>
kw_casamento == <<"c","a","s","a","m","e","n","t","o">>
kw_obito_acute == <<"o'","b","i","t","o">>
kw_obito == <<"o","b","i","t","o">>
kw_naturaliza == <<"n","a","t","u","r","a","l","i","z","a">>
kw_negativa == <<"n","e","g","a","t","i","v","a">>
kw_passaporte == <<"p","a","s","s","a","p","o","r","t","e">>
kw_rg == <<"r","g">>
kw_cnh == <<"c","n","h">>
kw_identidade == <<"i","d","e","n","t","i","d","a","d","e">>
kw_endereco == <<"e","n","d","e","r","e","c","o">>
kw_endereco_cedilla == <<"e","n","d","e","r","e","c,","o">>
kw_apostila == <<"a","p","o","s","t","i","l","a">>
kw_haia == <<"h","a","i","a">>
kw_haya == <<"h","a","y","a">>
kw_tradu == <<"t","r","a","d","u">>

DocType ==
  {"certidao_nascimento", "certidao_casamento", "certidao_obito",
   "certidao_naturalizacao", "certidao_negativa_naturalizacao",
   "passaporte", "rg_cnh", "comprovante_endereco", "apostila_haya",
   "traducao_juramentada"}

InferredType == DocType \cup {"unknown"}

guessDocType_LastRuleUnguarded(name) ==
  LET n == toLowerCase(name) IN
  IF includes(n, kw_nascimento) THEN "certidao_nascimento"
  ELSE IF includes(n, kw_casamento) THEN "certidao_casamento"
  ELSE IF includes(n, kw_obito_acute) \/ includes(n, kw_obito)
    THEN "certidao_obito"
  ELSE IF includes(n, kw_naturaliza) THEN "certidao_naturalizacao"
  ELSE IF includes(n, kw_negativa) /\ includes(n, kw_naturaliza)
    THEN "certidao_negativa_naturalizacao"
  ELSE IF includes(n, kw_passaporte) THEN "passaporte"
  ELSE IF includes(n, kw_rg) \/ includes(n, kw_cnh)
          \/ includes(n, kw_identidade)
    THEN "rg_cnh"
  ELSE IF includes(n, kw_endereco) \/ includes(n, kw_endereco_cedilla)
    THEN "comprovante_endereco"
  ELSE IF includes(n, kw_apostila) \/ includes(n, kw_haia)
          \/ includes(n, kw_haya)
    THEN "apostila_haya"
  ELSE "traducao_juramentada"

guessDocType_IdBeforePassport(name) ==
  LET n == toLowerCase(name) IN
  IF includes(n, kw_nascimento) THEN "certidao_nascimento"
  ELSE IF includes(n, kw_casamento) THEN "certidao_casamento"
  ELSE IF includes(n, kw_obito_acute) \/ includes(n, kw_obito)
    THEN "certidao_obito"
  ELSE IF includes(n, kw_naturaliza) THEN "certidao_naturalizacao"
  ELSE IF includes(n, kw_negativa) /\ includes(n, kw_naturaliza)
    THEN "certidao_negativa_naturalizacao"
  ELSE IF includes(n, kw_rg) \/ includes(n, kw_cnh)
          \/ includes(n, kw_identidade)
    THEN "rg_cnh"
  ELSE IF includes(n, kw_passaporte) THEN "passaporte"
  ELSE IF includes(n, kw_endereco) \/ includes(n, kw_endereco_cedilla)
    THEN "comprovante_endereco"
  ELSE IF includes(n, kw_apostila) \/ includes(n, kw_haia)
          \/ includes(n, kw_haya)
    THEN "apostila_haya"
  ELSE IF includes(n, kw_tradu) THEN "traducao_juramentada"
  ELSE "unknown"

guessDocType(name) ==
  LET n == toLowerCase(name) IN
  IF includes(n, kw_nascimento) THEN "certidao_nascimento"
  ELSE IF includes(n, kw_casamento) THEN "certidao_casamento"
  ELSE IF includes(n, kw_obito_acute) \/ includes(n, kw_obito)
    THEN "certidao_obito"
  ELSE IF includes(n, kw_naturaliza) THEN "certidao_naturalizacao"
  ELSE IF includes(n, kw_negativa) /\ includes(n, kw_naturaliza)
    THEN "certidao_negativa_naturalizacao"
  ELSE IF includes(n, kw_passaporte) THEN "passaporte"
  ELSE IF includes(n, kw_rg) \/ includes(n, kw_cnh)
          \/ includes(n, kw_identidade)
    THEN "rg_cnh"
  ELSE IF includes(n, kw_endereco) \/ includes(n, kw_endereco_cedilla)
    THEN "comprovante_endereco"
  ELSE IF includes(n, kw_apostila) \/ includes(n, kw_haia)
          \/ includes(n, kw_haya)
    THEN "apostila_haya"
  ELSE IF includes(n, kw_tradu) THEN "traducao_juramentada"
  ELSE "unknown"

(***************************************************************************)
(* scoreQuality                                                            *)
(***************************************************************************)
Max(a, b) == IF a > b THEN a ELSE b
Min(a, b) == IF a < b THEN a ELSE b

\* JavaScript truthiness of a string: every string but the empty one
truthy(s) == s # ""

\* new Set(docs.map((d) => d.inferredType))
typesOf(ds) == {ds[i].inferredType : i \in 1..Len(ds)}

applicantPoints_PhoneCounts(a) ==
    (IF truthy(a.fullName) THEN 5 ELSE 0)
  + (IF truthy(a.email) THEN 5 ELSE 0)
  + (IF truthy(a.phone) THEN 3 ELSE 0)
  + (IF truthy(a.country) THEN 3 ELSE 0)
  + (IF truthy(a.city) THEN 3 ELSE 0)

\* "Base info completeness"
applicantPoints(a) ==
    (IF truthy(a.fullName) THEN 5 ELSE 0)
  + (IF truthy(a.email) THEN 5 ELSE 0)
  + (IF truthy(a.country) THEN 3 ELSE 0)
  + (IF truthy(a.city) THEN 3 ELSE 0)

lineagePoints_RelationshipIgnored(l) ==
    (IF truthy(l.italianAncestorName) THEN 10 ELSE 0)
  + (IF truthy(l.italianAncestorBirthYear) THEN 6 ELSE 0)

\* "Lineage essentials"
lineagePoints(l) ==
    (IF truthy(l.italianAncestorName) THEN 10 ELSE 0)
  + (IF truthy(l.italianAncestorBirthYear) THEN 6 ELSE 0)
  + (IF truthy(l.relationshipToYou) THEN 6 ELSE 0)

docPoints_BirthWorthEight(ds) ==
  LET types == typesOf(ds) IN
    (IF "certidao_nascimento" \in types THEN 8 ELSE 0)
  + (IF "certidao_casamento" \in types THEN 8 ELSE 0)
  + (IF "certidao_obito" \in types THEN 6 ELSE 0)
  + (IF "certidao_negativa_naturalizacao" \in types
        \/ "certidao_naturalizacao" \in types THEN 12 ELSE 0)
  + (IF "apostila_haya" \in types THEN 8 ELSE 0)
  + (IF "traducao_juramentada" \in types THEN 6 ELSE 0)

RECURSIVE docPoints_PerDocument(_)
docPoints_PerDocument(ds) ==
  IF ds = <<>> THEN 0
  ELSE LET t == Head(ds).inferredType IN
       (CASE t = "certidao_nascimento" -> 10
          [] t = "certidao_casamento" -> 8
          [] t = "certidao_obito" -> 6
          [] t = "certidao_negativa_naturalizacao" -> 12
          [] t = "certidao_naturalizacao" -> 12
          [] t = "apostila_haya" -> 8
          [] t = "traducao_juramentada" -> 6
          [] OTHER -> 0)
       + docPoints_PerDocument(Tail(ds))

\* "Document presence boosts"
docPoints(ds) ==
  LET types == typesOf(ds) IN
    (IF "certidao_nascimento" \in types THEN 10 ELSE 0)
  + (IF "certidao_casamento" \in types THEN 8 ELSE 0)
  + (IF "certidao_obito" \in types THEN 6 ELSE 0)
  + (IF "certidao_negativa_naturalizacao" \in types
        \/ "certidao_naturalizacao" \in types THEN 12 ELSE 0)
  + (IF "apostila_haya" \in types THEN 8 ELSE 0)
  + (IF "traducao_juramentada" \in types THEN 6 ELSE 0)

riskPoints_BlockerAsMinor(l) ==
    (IF l.anyNaturalizationInLine THEN -8 ELSE 0)
  + (IF l.naturalizedBeforeChildBirth THEN -8 ELSE 0)
  + (IF l.anyFemaleBefore1948 THEN -8 ELSE 0)

riskPoints_BlockerFifteen(l) ==
    (IF l.anyNaturalizationInLine THEN -8 ELSE 0)
  + (IF l.naturalizedBeforeChildBirth THEN -15 ELSE 0)
  + (IF l.anyFemaleBefore1948 THEN -8 ELSE 0)

\* "Risk adjustments"
riskPoints(l) ==
    (IF l.anyNaturalizationInLine THEN -8 ELSE 0)
  + (IF l.naturalizedBeforeChildBirth THEN -25 ELSE 0)
  + (IF l.anyFemaleBefore1948 THEN -8 ELSE 0)

\* docs.every((d) => isPDF(d.file.name) || isImage(d.file.name))
pdfOrImg(ds) ==
  \A i \in 1..Len(ds) : isPDF(ds[i].file.name) \/ isImage(ds[i].file.name)

\* "File format sanity"
formatPoints(ds) == IF pdfOrImg(ds) THEN 6 ELSE 0

\* the value of the local variable score before the clamp
rawScore(l, ds, a) ==
  applicantPoints(a) + lineagePoints(l) + docPoints(ds) + riskPoints(l)
    + formatPoints(ds)

clamp_NoFloor(s) == Min(100, s)

\* "Clamp": Math.max(0, Math.min(100, score))
clamp(s) == Max(0, Min(100, s))

LabelExcelente == "Excelente - Alta probabilidade de viabilidade"
LabelBoa == "Boa - Viavel com possiveis ajustes"
LabelRegular == "Regular - Documentos/linhagem incompletos"
LabelBaixa == "Baixa - Falhas criticas a resolver"

labelOf_GoodAboveSixty(score) ==
  IF score >= 80 THEN LabelExcelente
  ELSE IF score > 60 THEN LabelBoa
  ELSE IF score >= 40 THEN LabelRegular
  ELSE LabelBaixa

\* "Label"
labelOf(score) ==
  IF score >= 80 THEN LabelExcelente
  ELSE IF score >= 60 THEN LabelBoa
  ELSE IF score >= 40 THEN LabelRegular
  ELSE LabelBaixa

FlagNascimento == "Falta certidao de nascimento (linhagem)"
FlagCasamento == "Falta certidao de casamento em alguma geracao"
FlagNaturalizacao == "Falta prova de (nao) naturalizacao do Avo Italiano"
FlagImpeditivo ==
  "Naturalizacao antes do nascimento do descendente - impeditivo"
FlagJudicial == "Linha materna pre-1948 - via judicial"

\* flags.push(msg) when cond holds
pushIf(flags, cond, msg) == IF cond THEN Append(flags, msg) ELSE flags

flagsOf_OnlyNegativeCounts(l, ds) ==
  LET types == typesOf(ds)
      f1 == pushIf(<<>>, "certidao_nascimento" \notin types, FlagNascimento)
      f2 == pushIf(f1, "certidao_casamento" \notin types, FlagCasamento)
      f3 == pushIf(f2, "certidao_negativa_naturalizacao" \notin types,
                   FlagNaturalizacao)
      f4 == pushIf(f3, l.naturalizedBeforeChildBirth, FlagImpeditivo)
  IN pushIf(f4, l.anyFemaleBefore1948, FlagJudicial)

\* "Key flags"
flagsOf(l, ds) ==
  LET types == typesOf(ds)
      f1 == pushIf(<<>>, "certidao_nascimento" \notin types, FlagNascimento)
      f2 == pushIf(f1, "certidao_casamento" \notin types, FlagCasamento)
      f3 == pushIf(f2, "certidao_negativa_naturalizacao" \notin types
                       /\ "certidao_naturalizacao" \notin types,
                   FlagNaturalizacao)
      f4 == pushIf(f3, l.naturalizedBeforeChildBirth, FlagImpeditivo)
  IN pushIf(f4, l.anyFemaleBefore1948, FlagJudicial)

\* the variable score kept outside the function and not reset by a call
scoreQuality_ScoreNotReset(l, ds, a) ==
  LET before == IF steps = 0 THEN 0 ELSE result.score
      score == clamp(before + rawScore(l, ds, a))
  IN [score |-> score, label |-> labelOf(score), flags |-> flagsOf(l, ds)]

scoreQuality(l, ds, a) ==
  LET score == clamp(rawScore(l, ds, a))
  IN [score |-> score, label |-> labelOf(score), flags |-> flagsOf(l, ds)]

(***************************************************************************)
(* The App component: initial state                                        *)
(***************************************************************************)
InitialApplicant ==
  [fullName |-> "", email |-> "", phone |-> "", country |-> "Brasil",
   city |-> ""]

InitialLineage ==
  [italianAncestorName |-> "", italianAncestorBirthYear |-> "",
   italianAncestorBirthPlace |-> "", relationshipToYou |-> "bisavo/avo",
   anyFemaleBefore1948 |-> FALSE, anyNaturalizationInLine |-> FALSE,
   naturalizedBeforeChildBirth |-> FALSE]

NotCalled == "not called"
NotEvaluated == [score |-> -1, label |-> "", flags |-> <<>>]

formVars == <<applicant, lineage, docs, result>>
classifierVars == <<fname, guess>>
historyVars == <<snap, steps>>
uiVars == <<accepted, alerts, payload>>

\* no summary was downloaded
NotDownloaded == [createdAt |-> -1]

\* the App-only state of the specifications that only call a function
uiIdle ==
  /\ accepted = FALSE
  /\ alerts = <<>>
  /\ payload = NotDownloaded

(***************************************************************************)
(* SpecClassify: guessDocType applied to one file name                     *)
(***************************************************************************)
Words ==
  {<<"n","a","s","c","i","m","e","n","t","o">>,
   <<"C","a","s","a","m","e","n","t","o">>,
   <<"O'","B","I","T","O">>,
   <<"o","b","i","t","o">>,
   <<"n","e","g","a","t","i","v","a">>,
   <<"N","E","G","A","T","I","V","A">>,
   <<"n","a","t","u","r","a","l","i","z","a">>,
   <<"N","a","t","u","r","a","l","i","z","a","c","a","o">>,
   <<"p","a","s","s","a","p","o","r","t","e">>,
   <<"r","g">>,
   <<"C","N","H">>,
   <<"i","d","e","n","t","i","d","a","d","e">>,
   <<"e","n","d","e","r","e","c,","o">>,
   <<"E","N","D","E","R","E","C","O">>,
   <<"a","p","o","s","t","i","l","a">>,
   <<"h","a","i","a">>,
   <<"H","a","y","a">>,
   <<"t","r","a","d","u","c","a","o">>,
   <<"_">>,
   <<"d","o","c">>,
   <<"c","a","r","g","o">>,
   <<"c","e","r","t","i","d","a","o">>}

Extensions == {<<".","p","d","f">>, <<".","J","P","G">>}

RECURSIVE Stems(_)
Stems(n) ==
  IF n = 0 THEN {<<>>}
  ELSE Stems(n - 1) \cup {s \o w : s \in Stems(n - 1), w \in Words}

FileNames == {s \o e : s \in Stems(MaxWords), e \in Extensions}

InitClassify ==
  /\ fname \in FileNames
  /\ guess = NotCalled
  /\ applicant = InitialApplicant
  /\ lineage = InitialLineage
  /\ docs = <<>>
  /\ result = NotEvaluated
  /\ snap = <<>>
  /\ steps = 0
  /\ uiIdle

Classify ==
  /\ guess = NotCalled
  /\ guess' = guessDocType(fname)
  /\ UNCHANGED <<fname, formVars, historyVars, uiVars>>

NextClassify == Classify

SpecClassify == InitClassify /\ [][NextClassify]_vars

\* the name contains kw when letter case is ignored
containsAnyCase(name, kw) ==
  \E i \in 1..(Len(name) - Len(kw) + 1) :
    \A k \in 1..Len(kw) : lowerChar(name[i + k - 1]) = kw[k]

Triggers ==
  {kw_nascimento, kw_casamento, kw_obito, kw_obito_acute, kw_naturaliza,
   kw_passaporte, kw_rg, kw_cnh, kw_identidade, kw_endereco,
   kw_endereco_cedilla, kw_apostila, kw_haia, kw_haya, kw_tradu}

\* C1: a file name that contains both "negativa" and "naturaliza" (any
\* letter case, either order) and none of "nascimento", "casamento",
\* "obito", "o'bito" is classified certidao_negativa_naturalizacao.
C1_NegativaWins ==
  (/\ guess # NotCalled
   /\ containsAnyCase(fname, kw_negativa)
   /\ containsAnyCase(fname, kw_naturaliza)
   /\ ~ containsAnyCase(fname, kw_nascimento)
   /\ ~ containsAnyCase(fname, kw_casamento)
   /\ ~ containsAnyCase(fname, kw_obito)
   /\ ~ containsAnyCase(fname, kw_obito_acute))
  => guess = "certidao_negativa_naturalizacao"

\* C9: guessDocType always returns one of the ten categories or "unknown",
\* and it returns "unknown" for every file name that contains none of the
\* trigger substrings in any letter case.
C9_UnknownByDefault ==
  guess # NotCalled =>
    /\ guess \in InferredType
    /\ (\A kw \in Triggers : ~ containsAnyCase(fname, kw)) => guess = "unknown"

C9_Witness ==
  /\ guess = "unknown"
  /\ includes(fname, <<"d","o","c">>)
  /\ includes(fname, <<"c","e","r","t","i","d","a","o">>)

\* the rules in the priority order nascimento > casamento > obito >
\* naturaliza > passaporte > rg/cnh/identidade > endereco >
\* apostila/haia/haya > tradu
PriorityRules ==
  << [triggers |-> {kw_nascimento}, category |-> "certidao_nascimento"],
     [triggers |-> {kw_casamento}, category |-> "certidao_casamento"],
     [triggers |-> {kw_obito, kw_obito_acute}, category |-> "certidao_obito"],
     [triggers |-> {kw_naturaliza}, category |-> "certidao_naturalizacao"],
     [triggers |-> {kw_passaporte}, category |-> "passaporte"],
     [triggers |-> {kw_rg, kw_cnh, kw_identidade}, category |-> "rg_cnh"],
     [triggers |-> {kw_endereco, kw_endereco_cedilla},
      category |-> "comprovante_endereco"],
     [triggers |-> {kw_apostila, kw_haia, kw_haya},
      category |-> "apostila_haya"],
     [triggers |-> {kw_tradu}, category |-> "traducao_juramentada"] >>

matchesRule(name, i) ==
  \E kw \in PriorityRules[i].triggers : containsAnyCase(name, kw)

\* C15: guessDocType returns the category of the first rule, in the
\* priority order, that has a trigger in the file name (any letter case),
\* whatever later rules match as well.
C15_FirstMatchWins ==
  guess # NotCalled =>
    \A i \in 1..Len(PriorityRules) :
      (matchesRule(fname, i) /\ \A j \in 1..(i - 1) : ~ matchesRule(fname, j))
        => guess = PriorityRules[i].category

\* "Casamento" and then "nascimento" in one name: a birth certificate
C15_Witness ==
  /\ guess = "certidao_nascimento"
  /\ Len(fname) >= 19
  /\ SubSeq(fname, 1, 9) = <<"C","a","s","a","m","e","n","t","o">>
  /\ SubSeq(fname, 10, 19) = kw_nascimento

\* "rg" and then "passaporte" in one name: a passport
C15_PassportOverId ==
  /\ guess = "passaporte"
  /\ Len(fname) >= 12
  /\ SubSeq(fname, 1, 2) = kw_rg
  /\ SubSeq(fname, 3, 12) = kw_passaporte

(***************************************************************************)
(* SpecScore: scoreQuality applied to one (lineage, docs, applicant)       *)
(***************************************************************************)
Text == {"", "x"}

Relationship ==
  {"avo/avo", "bisavo/avo", "trisavo/avo", "tataravo/avo", "outro"}

Applicant ==
  [fullName : Text, email : Text, phone : Text, country : Text, city : Text]

LineageInfo ==
  [italianAncestorName : Text, italianAncestorBirthYear : Text,
   italianAncestorBirthPlace : Text, relationshipToYou : Relationship,
   anyFemaleBefore1948 : BOOLEAN, anyNaturalizationInLine : BOOLEAN,
   naturalizedBeforeChildBirth : BOOLEAN]

UploadedDoc(id, name, type) ==
  [id |-> id, file |-> [name |-> name], inferredType |-> type]

\* one document of every type that scores, and two of types that do not
Catalog ==
  <<
    UploadedDoc(1,
      <<"n","a","s","c","i","m","e","n","t","o",".","p","d","f">>,
      "certidao_nascimento"),
    UploadedDoc(2,
      <<"c","a","s","a","m","e","n","t","o",".","p","d","f">>,
      "certidao_casamento"),
    UploadedDoc(3,
      <<"o","b","i","t","o",".","P","N","G">>,
      "certidao_obito"),
    UploadedDoc(4,
      <<"n","a","t","u","r","a","l","i","z","a","c","a","o",".","j","p","e","g">>,
      "certidao_naturalizacao"),
    UploadedDoc(5,
      <<"n","e","g","a","t","i","v","a","_","n","a","t","u","r","a","l","i","z","a","c","a","o",".","p","d","f">>,
      "certidao_negativa_naturalizacao"),
    UploadedDoc(6,
      <<"a","p","o","s","t","i","l","a",".","p","d","f">>,
      "apostila_haya"),
    UploadedDoc(7,
      <<"t","r","a","d","u","c","a","o",".","p","d","f">>,
      "traducao_juramentada"),
    UploadedDoc(8,
      <<"p","a","s","s","a","p","o","r","t","e",".","t","x","t">>,
      "passaporte"),
    UploadedDoc(9,
      <<"f","o","t","o",".","g","i","f">>,
      "unknown")
  >>

\* the documents of the catalog whose id is in S, in catalog order
Dossier(S) == SelectSeq(Catalog, LAMBDA d : d.id \in S)

Dossiers == {Dossier(S) : S \in SUBSET (1..Len(Catalog))}

\* documents of the two remaining types, which do not score either
OtherDocuments ==
  <<
    UploadedDoc(10,
      <<"i","d","e","n","t","i","d","a","d","e",".","P","D","F">>,
      "rg_cnh"),
    UploadedDoc(11,
      <<"e","n","d","e","r","e","c","o",".","w","e","b","p">>,
      "comprovante_endereco")
  >>

\* the lists of at most MaxDocs documents, of any of the eleven types
ShortDossiers ==
  {SelectSeq(Catalog \o OtherDocuments, LAMBDA d : d.id \in T) :
     T \in {U \in SUBSET (1..(Len(Catalog) + Len(OtherDocuments))) :
              Cardinality(U) <= MaxDocs}}

\* number of text fields of the form left empty
blankFields(a, l) ==
  LET fields == <<a.fullName, a.email, a.phone, a.country, a.city,
                  l.italianAncestorName, l.italianAncestorBirthYear,
                  l.italianAncestorBirthPlace>>
  IN Cardinality({i \in 1..Len(fields) : fields[i] = ""})

NearlyCompleteForms ==
  {f \in Applicant \X LineageInfo : blankFields(f[1], f[2]) <= MaxBlank}

\* a birth certificate to add to a list, with and without a recognised
\* extension
AddedBirthCertificates ==
  {UploadedDoc(0, <<"N","a","s","c","i","m","e","n","t","o",".","J","P","G">>,
               "certidao_nascimento"),
   UploadedDoc(0, <<"n","a","s","c","i","m","e","n","t","o",".","d","o","c","x">>,
               "certidao_nascimento")}

\* any form with a short dossier, or a nearly complete form with any dossier
InitScore ==
  /\ \/ /\ applicant \in Applicant
        /\ lineage \in LineageInfo
        /\ docs \in ShortDossiers
     \/ /\ \E f \in NearlyCompleteForms : applicant = f[1] /\ lineage = f[2]
        /\ docs \in Dossiers
  /\ result = NotEvaluated
  /\ fname = <<>>
  /\ guess = NotCalled
  /\ snap = <<>>
  /\ steps = 0
  /\ uiIdle

Evaluate ==
  /\ result = NotEvaluated
  /\ result' = scoreQuality(lineage, docs, applicant)
  /\ UNCHANGED <<applicant, lineage, docs, classifierVars, historyVars, uiVars>>

NextScore == Evaluate

SpecScore == InitScore /\ [][NextScore]_vars

\* C2: the score is an integer between 0 and 100.
C2_ScoreInRange ==
  result # NotEvaluated => result.score \in 0..100

\* all three risk flags set, nothing filled in: the sum is negative
C2_Witness ==
  /\ result # NotEvaluated
  /\ lineage.anyFemaleBefore1948
  /\ lineage.anyNaturalizationInLine
  /\ lineage.naturalizedBeforeChildBirth
  /\ rawScore(lineage, docs, applicant) < 0
  /\ result.score = 0

\* the score of the same form with the document d added to the list
scoreWith(d) == scoreQuality(lineage, Append(docs, d), applicant).score

noBirthCertificateYet ==
  /\ result # NotEvaluated
  /\ \A i \in 1..Len(docs) : docs[i].inferredType # "certidao_nascimento"

\* C3 as stated: adding a birth certificate to a list without one raises
\* the score by exactly 10 unless the score was already 100.
C3_BirthAddsTen ==
  noBirthCertificateYet =>
    \A d \in AddedBirthCertificates :
      scoreWith(d) = result.score + 10 \/ result.score = 100

\* C3 as amended: the new score is the clamp of the old unclamped sum plus
\* 10, less the 6 format points when the added file is the first one
\* without a recognised extension; so it is exactly 10 greater whenever the
\* old sum was not negative and the format points are not lost.  The old
\* sum is at most 84, so the ceiling of 100 plays no part.
C3_BirthAddsTenUnclamped ==
  noBirthCertificateYet =>
    \A d \in AddedBirthCertificates :
      LET sum == rawScore(lineage, docs, applicant)
          lost == IF pdfOrImg(docs)
                     /\ ~ (isPDF(d.file.name) \/ isImage(d.file.name))
                  THEN 6 ELSE 0
          expected == sum + 10 - lost
          after == scoreWith(d)
      IN /\ after =
              IF expected < 0 THEN 0 ELSE IF expected > 100 THEN 100
              ELSE expected
         /\ (sum >= 0 /\ lost = 0) => after = result.score + 10
         /\ sum <= 84

\* a list of other documents without a birth certificate, a positive
\* score, and a birth certificate whose addition gives exactly 10 more
C3_Witness ==
  /\ noBirthCertificateYet
  /\ docs # <<>>
  /\ result.score > 0
  /\ \E d \in AddedBirthCertificates : scoreWith(d) = result.score + 10

\* C4: the label is the one the threshold ladder gives for the score.
C4_LabelLadder ==
  result # NotEvaluated =>
    /\ result.label = LabelExcelente <=> result.score >= 80
    /\ result.label = LabelBoa <=> (60 <= result.score /\ result.score <= 79)
    /\ result.label = LabelRegular
         <=> (40 <= result.score /\ result.score <= 59)
    /\ result.label = LabelBaixa <=> result.score <= 39

C4_Witness == result.score = 60 /\ result.label = LabelBoa

\* the other three boundary scores of C4 also occur
C4_Score80 == result.score = 80 /\ result.label = LabelExcelente
C4_Score40 == result.score = 40 /\ result.label = LabelRegular
C4_Score39 == result.score = 39 /\ result.label = LabelBaixa

hasType(t) == \E i \in 1..Len(docs) : docs[i].inferredType = t

flagDue(msg) ==
  CASE msg = FlagNascimento -> ~ hasType("certidao_nascimento")
    [] msg = FlagCasamento -> ~ hasType("certidao_casamento")
    [] msg = FlagNaturalizacao ->
         ~ hasType("certidao_naturalizacao")
         /\ ~ hasType("certidao_negativa_naturalizacao")
    [] msg = FlagImpeditivo -> lineage.naturalizedBeforeChildBirth
    [] msg = FlagJudicial -> lineage.anyFemaleBefore1948

\* C5: the flags are exactly the messages of the fixed sequence whose
\* condition holds, each once, in that order.
C5_FlagsExact ==
  result # NotEvaluated =>
    result.flags =
      SelectSeq(<<FlagNascimento, FlagCasamento, FlagNaturalizacao,
                  FlagImpeditivo, FlagJudicial>>, flagDue)

C5_Witness ==
  /\ result.flags = <<FlagCasamento, FlagJudicial>>
  /\ hasType("certidao_naturalizacao")
  /\ ~ hasType("certidao_negativa_naturalizacao")

endsInPdf(name) ==
  Len(name) >= 4 /\ SubSeq(name, Len(name) - 3, Len(name)) = <<".","p","d","f">>

C6_Scenario ==
  /\ result # NotEvaluated
  /\ applicant.fullName # "" /\ applicant.email # ""
  /\ applicant.country # "" /\ applicant.city # ""
  /\ lineage.italianAncestorName # ""
  /\ lineage.italianAncestorBirthYear # ""
  /\ lineage.relationshipToYou \in Relationship
  /\ ~ lineage.anyFemaleBefore1948
  /\ ~ lineage.anyNaturalizationInLine
  /\ ~ lineage.naturalizedBeforeChildBirth
  /\ {docs[i].inferredType : i \in 1..Len(docs)} =
       {"certidao_nascimento", "certidao_casamento",
        "certidao_negativa_naturalizacao", "apostila_haya",
        "traducao_juramentada"}
  /\ \A i \in 1..Len(docs) : endsInPdf(docs[i].file.name)

\* C6: a complete form without risk flags and the five documents, all
\* PDF, score 88, "Excelente", no flags.
C6_CompleteDossier ==
  C6_Scenario =>
    result = [score |-> 88, label |-> LabelExcelente, flags |-> <<>>]

C6_Witness == C6_Scenario /\ result.score = 88

C7_Scenario ==
  /\ result # NotEvaluated
  /\ applicant.fullName = "" /\ applicant.email = "" /\ applicant.phone = ""
  /\ applicant.country = "" /\ applicant.city = ""
  /\ lineage.italianAncestorName = ""
  /\ lineage.italianAncestorBirthYear = ""
  /\ lineage.italianAncestorBirthPlace = ""
  /\ lineage.relationshipToYou \in Relationship
  /\ ~ lineage.anyFemaleBefore1948
  /\ ~ lineage.anyNaturalizationInLine
  /\ lineage.naturalizedBeforeChildBirth
  /\ docs = <<>>

\* C7: an empty form with only naturalizedBeforeChildBirth set and no
\* documents scores 0, "Baixa", with exactly the four messages.
C7_EmptyBlocked ==
  C7_Scenario =>
    result = [score |-> 0, label |-> LabelBaixa,
              flags |-> <<FlagNascimento, FlagCasamento, FlagNaturalizacao,
                          FlagImpeditivo>>]

C7_Witness == C7_Scenario /\ Len(result.flags) = 4

(***************************************************************************)
(* SpecOrder: scoreQuality applied to document lists in every order, with  *)
(* repeated documents                                                      *)
(***************************************************************************)
\* file name and inferred type of the documents the lists are made of
Shapes ==
  {[name |-> <<"n","a","s","c","i","m","e","n","t","o",".","p","d","f">>,
    type |-> "certidao_nascimento"],
   [name |-> <<"n","a","t","u","r","a","l","i","z","a","c","a","o",".","t","x","t">>,
    type |-> "certidao_naturalizacao"]}

\* every list of at most n documents of these shapes, ids by position
OrderedLists(n) ==
  {[i \in DOMAIN f |-> UploadedDoc(i, f[i].name, f[i].type)] :
     f \in UNION {[1..k -> Shapes] : k \in 0..n}}

InitOrder ==
  /\ applicant \in Applicant
  /\ lineage \in LineageInfo
  /\ docs \in OrderedLists(MaxSeq)
  /\ result = NotEvaluated
  /\ fname = <<>>
  /\ guess = NotCalled
  /\ snap = <<>>
  /\ steps = 0
  /\ uiIdle

NextOrder == Evaluate

SpecOrder == InitOrder /\ [][NextOrder]_vars

categories(ds) == {ds[i].inferredType : i \in 1..Len(ds)}

recognised(name) ==
  \E e \in {ext_pdf, ext_png, ext_jpg, ext_jpeg, ext_webp, ext_gif} :
    /\ Len(name) >= Len(e)
    /\ \A k \in 1..Len(e) : lowerChar(name[Len(name) - Len(e) + k]) = e[k]

allRecognised(ds) == \A i \in 1..Len(ds) : recognised(ds[i].file.name)

\* the lists a list is compared with: one document longer, to hold a copy
ComparedLists == OrderedLists(MaxSeq + 1)

\* what the claim says the result may depend on
signature(ds) == <<categories(ds), allRecognised(ds)>>

\* the compared lists that have the signature of ds
SameSignature ==
  [ds \in ComparedLists |->
     {other \in ComparedLists : signature(other) = signature(ds)}]

\* C8: for a fixed form the result is the same for every document list
\* with the same set of categories and the same answer to "has every file
\* name a recognised extension": order and repetition do not matter.
C8_OnlyCategoriesMatter ==
  result # NotEvaluated =>
    \A other \in SameSignature[docs] :
      scoreQuality(lineage, other, applicant) = result

\* a list of two different documents was evaluated: its reversal and the
\* lists with a second copy of either document are among the lists compared
C8_Witness ==
  /\ result # NotEvaluated
  /\ Len(docs) = 2
  /\ docs[1].inferredType # docs[2].inferredType
  /\ \E other \in SameSignature[docs] :
       /\ Len(other) = 3
       /\ other[1].file.name = docs[2].file.name
       /\ other[2].file.name = docs[1].file.name
       /\ other[3].file.name = docs[1].file.name
  /\ result.score > 0

(***************************************************************************)
(* Spec: the App component.  Every handler sets state and React renders    *)
(* again, which recomputes the memoised scoreQuality result.               *)
(***************************************************************************)
\* names of the files a user picks
PickedNames ==
  {<<"n","a","s","c","i","m","e","n","t","o",".","p","d","f">>,
   <<"N","e","g","a","t","i","v","a","_","N","a","t","u","r","a","l","i","z","a","c","a","o",".","d","o","c","x">>}

\* e.target.files: the files of one selection
FileLists == UNION {[1..n -> PickedNames] : n \in 1..MaxPick}

\* Math.random().toString(36).slice(2): any of the values, fresh or not
Uids == 1..NumIds

ApplicantFields == {"fullName", "email", "phone", "city", "country"}

LineageTextFields ==
  {"italianAncestorName", "italianAncestorBirthYear",
   "italianAncestorBirthPlace"}

LineageCheckboxes ==
  {"anyFemaleBefore1948", "anyNaturalizationInLine",
   "naturalizedBeforeChildBirth"}

Init ==
  /\ steps = 0
  /\ applicant = InitialApplicant
  /\ lineage = InitialLineage
  /\ docs = <<>>
  /\ result = scoreQuality(InitialLineage, <<>>, InitialApplicant)
  /\ fname = <<>>
  /\ guess = NotCalled
  /\ snap = <<>>
  /\ uiIdle

\* the session goes on
userActs == steps < MaxSteps

\* a render whose useMemo dependencies did not all count: the result is
\* kept when only the document list changed
render_DocsNotADependency ==
  /\ steps' = steps + 1
  /\ result' = IF lineage' = lineage /\ applicant' = applicant
                THEN result
                ELSE scoreQuality(lineage', docs', applicant')
  /\ UNCHANGED <<classifierVars, snap, uiVars>>

\* the render that follows a change of lineage, docs or applicant
render ==
  /\ steps' = steps + 1
  /\ result' = scoreQuality(lineage', docs', applicant')
  /\ UNCHANGED <<classifierVars, snap, uiVars>>

\* onChange of the five applicant inputs
setApplicant ==
  /\ userActs
  /\ \E field \in ApplicantFields, value \in Text :
       applicant' = [applicant EXCEPT ![field] = value]
  /\ UNCHANGED <<lineage, docs>>
  /\ render

\* onChange of the lineage inputs, the select and the three checkboxes
setLineage ==
  /\ userActs
  /\ \/ \E field \in LineageTextFields, value \in Text :
          lineage' = [lineage EXCEPT ![field] = value]
     \/ \E value \in Relationship :
          lineage' = [lineage EXCEPT !.relationshipToYou = value]
     \/ \E field \in LineageCheckboxes, checked \in BOOLEAN :
          lineage' = [lineage EXCEPT ![field] = checked]
  /\ UNCHANGED <<applicant, docs>>
  /\ render

\* a file selection that does not classify the files
onFilePick_Unclassified ==
  /\ userActs
  /\ \E files \in FileLists :
       \E ids \in [1..Len(files) -> Uids] :
         LET list == [i \in 1..Len(files) |->
                        UploadedDoc(ids[i], files[i], "unknown")]
         IN docs' = docs \o list
  /\ UNCHANGED <<applicant, lineage>>
  /\ render

\* onChange of the file input
onFilePick ==
  /\ userActs
  /\ \E files \in FileLists :
       \E ids \in [1..Len(files) -> Uids] :
         LET list == [i \in 1..Len(files) |->
                        UploadedDoc(ids[i], files[i], guessDocType(files[i]))]
         IN docs' = docs \o list
  /\ UNCHANGED <<applicant, lineage>>
  /\ render

removeDoc ==
  /\ userActs
  /\ \E k \in 1..Len(docs) :
       docs' = SelectSeq(docs, LAMBDA d : d.id # docs[k].id)
  /\ UNCHANGED <<applicant, lineage>>
  /\ render

\* a render with the same lineage, docs and applicant: useMemo returns
\* the result it holds
memoHit ==
  /\ steps' = steps + 1
  /\ UNCHANGED <<formVars, classifierVars, snap>>

\* onChange of the disclaimer checkbox
setAccepted ==
  /\ userActs
  /\ \E checked \in BOOLEAN : accepted' = checked
  /\ UNCHANGED <<alerts, payload>>
  /\ memoHit

\* docs.map((d) => ({ name, size, inferredType })); a File of the model
\* has a name only
summaryDocs(ds) ==
  [i \in 1..Len(ds) |->
     [name |-> ds[i].file.name, inferredType |-> ds[i].inferredType]]

\* "Baixar resumo JSON"; the clock read by new Date() is the step count
downloadSummary ==
  /\ userActs
  /\ payload' = [applicant |-> applicant, lineage |-> lineage,
                  docs |-> summaryDocs(docs), score |-> result.score,
                  label |-> result.label, flags |-> result.flags,
                  createdAt |-> steps]
  /\ UNCHANGED <<accepted, alerts>>
  /\ memoHit

AlertConcordancia == "Marque a concordancia para prosseguir."

AlertResumo ==
  "Resumo gerado localmente. Envie o JSON para analise completa por um especialista."

\* "Solicitar contato" without the guard on accepted
requestContact_NoGuard ==
  /\ userActs
  /\ alerts' = Append(alerts, AlertResumo)
  /\ UNCHANGED <<accepted, payload>>
  /\ memoHit

\* onClick of "Solicitar contato"
requestContact ==
  /\ userActs
  /\ alerts' = Append(alerts, IF ~ accepted THEN AlertConcordancia
                                           ELSE AlertResumo)
  /\ UNCHANGED <<accepted, payload>>
  /\ memoHit

\* history: keep the inputs and the result of the current render
Remember ==
  /\ snap = <<>>
  /\ snap' = <<[lineage |-> lineage, docs |-> docs, applicant |-> applicant,
                result |-> result, at |-> steps]>>
  /\ UNCHANGED <<formVars, classifierVars, steps, uiVars>>

Next ==
  \/ setApplicant
  \/ setLineage
  \/ onFilePick
  \/ removeDoc
  \/ setAccepted
  \/ downloadSummary
  \/ requestContact
  \/ Remember

Spec == Init /\ [][Next]_vars

sameInputsAsRemembered ==
  /\ snap # <<>>
  /\ snap[1].lineage = lineage
  /\ snap[1].docs = docs
  /\ snap[1].applicant = applicant

\* C10: whenever the form and the document list are the same as at an
\* earlier render, whatever was edited, picked, removed and evaluated in
\* between, the score, the label and the flags are the same as then.
C10_SameInputsSameResult ==
  sameInputsAsRemembered => result = snap[1].result

\* the same inputs again, two or more renders later
C10_Witness ==
  /\ sameInputsAsRemembered
  /\ steps >= snap[1].at + 2

distinctIds(ds) ==
  \A i, j \in 1..Len(ds) : i # j => ds[i].id # ds[j].id

\* C11: after any file selections and removals, no two documents of the
\* list have the same id (so that removing by id removes one document).
C11_DistinctIds == distinctIds(docs)

\* the score, label and flags of a summary, computed again from its own
\* applicant, lineage and documents
summaryResult(p) ==
  scoreQuality(p.lineage,
               [i \in 1..Len(p.docs) |->
                  UploadedDoc(0, p.docs[i].name, p.docs[i].inferredType)],
               p.applicant)

\* C12: in every state of the App the displayed score, label and flags
\* are scoreQuality of the current lineage, docs and applicant; a summary
\* carries the result of its own inputs, and the summary just downloaded
\* carries the current inputs and the displayed result.
C12_DisplayedIsCurrent ==
  /\ result = scoreQuality(lineage, docs, applicant)
  /\ payload # NotDownloaded =>
       /\ summaryResult(payload) =
            [score |-> payload.score, label |-> payload.label,
             flags |-> payload.flags]
       /\ payload.createdAt = steps - 1 =>
            /\ payload.applicant = applicant
            /\ payload.lineage = lineage
            /\ payload.docs = summaryDocs(docs)
            /\ payload.score = result.score
            /\ payload.label = result.label
            /\ payload.flags = result.flags

\* a birth certificate was picked and the summary downloaded right after
C12_Witness ==
  /\ payload # NotDownloaded
  /\ payload.createdAt = 1
  /\ steps = 2
  /\ Len(docs) = 1
  /\ payload.score = 25
  /\ result.score = 25

\* C13: a step that shows an alert is a contact request: it shows the
\* confirmation if the checkbox is accepted at that moment and the refusal
\* if it is not, and leaves applicant, lineage, docs and accepted as they
\* were; no other step (a download included) shows any alert.
C13_ContactGuard ==
  [][alerts' # alerts =>
       /\ alerts' = Append(alerts, IF accepted THEN AlertResumo
                                               ELSE AlertConcordancia)
       /\ UNCHANGED <<applicant, lineage, docs, accepted, payload>>]_vars

\* the checkbox was ticked and the contact request was confirmed
C13_Witness ==
  /\ accepted
  /\ alerts = <<AlertResumo>>

\* the contact request was refused
C13_Refused ==
  /\ ~ accepted
  /\ alerts = <<AlertConcordancia>>

contributions ==
    (IF applicant.fullName # "" THEN 5 ELSE 0)
  + (IF applicant.email # "" THEN 5 ELSE 0)
  + (IF applicant.country # "" THEN 3 ELSE 0)
  + (IF applicant.city # "" THEN 3 ELSE 0)
  + (IF lineage.italianAncestorName # "" THEN 10 ELSE 0)
  + (IF lineage.italianAncestorBirthYear # "" THEN 6 ELSE 0)
  + (IF lineage.relationshipToYou # "" THEN 6 ELSE 0)
  + (IF hasType("certidao_nascimento") THEN 10 ELSE 0)
  + (IF hasType("certidao_casamento") THEN 8 ELSE 0)
  + (IF hasType("certidao_obito") THEN 6 ELSE 0)
  + (IF hasType("certidao_naturalizacao")
        \/ hasType("certidao_negativa_naturalizacao") THEN 12 ELSE 0)
  + (IF hasType("apostila_haya") THEN 8 ELSE 0)
  + (IF hasType("traducao_juramentada") THEN 6 ELSE 0)
  + (IF allRecognised(docs) THEN 6 ELSE 0)
  + (IF lineage.anyNaturalizationInLine THEN -8 ELSE 0)
  + (IF lineage.naturalizedBeforeChildBirth THEN -25 ELSE 0)
  + (IF lineage.anyFemaleBefore1948 THEN -8 ELSE 0)

\* C14: the score is max(0, min(100, S)) for S the sum of the listed
\* contributions; the phone, the ancestor's birth place and documents of
\* type passaporte, rg_cnh, comprovante_endereco or unknown add nothing.
C14_ScoreIsClampedSum ==
  result # NotEvaluated =>
    result.score =
      IF contributions < 0 THEN 0
      ELSE IF contributions > 100 THEN 100 ELSE contributions

\* every document of the catalog at once: both naturalization types, a
\* passport with an unrecognised extension and an unknown file
C14_Witness ==
  /\ result # NotEvaluated
  /\ Len(docs) = Len(Catalog)
  /\ applicant.phone # ""
  /\ lineage.italianAncestorBirthPlace # ""
  /\ ~ lineage.naturalizedBeforeChildBirth
  /\ ~ lineage.anyNaturalizationInLine
  /\ ~ lineage.anyFemaleBefore1948
  /\ result.score = 88

\* an identity card alone, on an empty form: only the format points
C14_IdCardAlone ==
  /\ result # NotEvaluated
  /\ Len(docs) = 1
  /\ docs[1].inferredType = "rg_cnh"
  /\ applicant.country = ""
  /\ result.score = 12

\* C17: when naturalizedBeforeChildBirth is set the score is at most 69,
\* so the label is not the Excelente one; the label is not the Excelente
\* one either whenever the flags hold the naturalization-before-birth
\* message.
C17_BlockerCapsScore ==
  result # NotEvaluated =>
    /\ lineage.naturalizedBeforeChildBirth =>
         result.score <= 69 /\ result.label # LabelExcelente
    /\ (\E i \in 1..Len(result.flags) : result.flags[i] = FlagImpeditivo) =>
         result.label # LabelExcelente

\* everything that scores is there and only this risk is set: 94 - 25
C17_Witness ==
  /\ result # NotEvaluated
  /\ lineage.naturalizedBeforeChildBirth
  /\ FlagImpeditivo \in {result.flags[i] : i \in 1..Len(result.flags)}
  /\ result.score = 69
  /\ result.label = LabelBoa

====
